---------------------------- MODULE Spec2Model ----------------------------
(***************************************************************************)
(* m2joy: mouse-to-joystick translation core.                              *)
(*                                                                         *)
(* Two threads and an asynchronous signal handler:                         *)
(*   - the capture thread (MouseReader::run, mouse.rs) blocks on the       *)
(*     pointer device, consumes TOGGLE, grabs/ungrabs the device and adds  *)
(*     relative motion into the atomics dx / dy while `active`;            *)
(*   - the main thread (main, main.rs) runs the 1 kHz tick loop: drain,    *)
(*     EMA filter, scale, emit; on quit it centers the stick, sets the     *)
(*     capture thread's quit flag and joins it;                            *)
(*   - signal_handler (main.rs) stores TOGGLE or QUIT.                     *)
(*                                                                         *)
(* A step is one access to an atomic written by the other thread (or one  *)
(* device call) together with the thread-local computation around it; the  *)
(* load of a flag that only a later step of the other side can change is   *)
(* taken together with the access that follows it.                         *)
(*                                                                         *)
(* f32 values (ema_x, ema_y) are held in fixed point, in units of          *)
(* 1/FP_ONE, with products truncated toward zero.                          *)
(***************************************************************************)
EXTENDS Integers, Sequences, FiniteSets, TLC

-----------------------------------------------------------------------------
(* Program constants *)

\* const BASE_SCALE: f32 = 2400.0
BASE_SCALE == 2400

\* const EMA_DECAY: f32 = 0.96, as the fraction EMA_DECAY_NUM / EMA_DECAY_DEN
EMA_DECAY_NUM == 96
EMA_DECAY_DEN == 100

\* const STICK_MIN / STICK_MAX (virtual_pad.rs)
STICK_MIN == -32767
STICK_MAX == 32767

\* range of i32, the target of the `as i32` casts and the width of dx / dy
I32_MAX == 2147483647
I32_MIN == -I32_MAX - 1

\* default of --sensitivity
DEFAULT_SENSITIVITY == 1

\* default of --decay, 0.95, as the fraction DEFAULT_DECAY_NUM /
\* DEFAULT_DECAY_DEN (config.rs; main.rs never reads config.decay)
DEFAULT_DECAY_NUM == 95
DEFAULT_DECAY_DEN == 100

-----------------------------------------------------------------------------
(* Bounds of the model *)

\* resolution of the fixed-point representation of f32: one unit is 1/FP_ONE
FP_ONE == 100

\* SIGUSR1 deliveries in a run
MaxToggles == 2

\* event batches the pointer device reports in a run
MaxBatches == 1

\* non-zero drained deltas in a run of the filter specification
MaxBursts == 1

\* the example bound of the idle-decay property, in ticks
IdleDecayTicks == 200

\* writes the output device rejects in a run of the specification with an
\* unreliable output device
MaxWriteFaults == 1

-----------------------------------------------------------------------------
(* Inputs *)

\* One input event: kind "X" = RelAxis(REL_X), "Y" = RelAxis(REL_Y),
\* "W" = RelAxis(other axis, e.g. the wheel), "K" = any non-RelAxis event.
Ev(k, v) == [kind |-> k, value |-> v]

\* The batches fetch_events can return.
EventBatches ==
    { << Ev("X", 1), Ev("Y", -1) >>,
      << Ev("W", 1), Ev("K", 1) >> }

\* Drained deltas fed to the filter in the filter specification.
FilterDeltas ==
    { <<0, 0>>, <<1, 0>>, <<10, 0>>, <<-20, 7>>, <<1000, -1000>> }

\* --sensitivity values of the filter specification
Sensitivities == { 1, 1000 }

-----------------------------------------------------------------------------
VARIABLES
    \* shared atomics (mouse.rs MouseState, main.rs statics)
    dx, dy, active, quit, QUIT, TOGGLE,
    \* capture thread
    capPc,      \* position in MouseReader::new / run
    events,     \* the batch being processed by the for loop
    grabbed,    \* whether the device is exclusively grabbed
    \* pointer device and signal delivery
    devq,       \* events the device holds for the next read
    intr,       \* a signal handler ran on the capture thread inside read()
    \* main thread
    mainPc,     \* position in main
    ldx,        \* drain()'s local dx between the two swaps
    ema_x, ema_y, prev_sx, prev_sy,
    sensitivity, invert_y,
    \* output device: the last emit_stick call
    lastWrite,  \* the clamped pair written, or <<>> before the first write
    lastKind,   \* "none" | "active" | "idle" | "final"
    dupWrite,   \* some Active tick wrote the pair the write before it wrote
    devPos,     \* the pair of the last emit_stick call that returned Ok (the
                \* position the consumer sees), or <<>> if there was none
    writeFaults, \* emit_stick calls that may still return Err
    \* bookkeeping
    nToggles, nBatches,
    owedX, owedY, \* sum of the values added by fetch_add minus the sum of
                \* the values returned by drain() so far
    sinceDeact, \* what the scheduler did since the last Active -> Idle
    quiet,      \* drains started since the last fetch_add, at most 2
    bursts,     \* non-zero deltas drained (filter specification)
    since       \* ticks since the last non-zero drain (filter specification)

vars == << dx, dy, active, quit, QUIT, TOGGLE, capPc, events, grabbed, devq,
           intr, mainPc, ldx, ema_x, ema_y, prev_sx, prev_sy, sensitivity,
           invert_y, lastWrite, lastKind, dupWrite, devPos, writeFaults,
           nToggles, nBatches, owedX, owedY, quiet, sinceDeact, bursts,
           since >>

shared    == << dx, dy, active, quit, QUIT, TOGGLE >>
capVars   == << capPc, events, grabbed >>
filterVars == << ema_x, ema_y, prev_sx, prev_sy >>
cfgVars   == << sensitivity, invert_y >>
outVars   == << lastWrite, lastKind, dupWrite, devPos, writeFaults >>
sumVars   == << owedX, owedY, quiet >>
fltHist   == << bursts, since >>


-----------------------------------------------------------------------------
(* Arithmetic *)

Abs(n) == IF n < 0 THEN -n ELSE n

Sign(n) == IF n < 0 THEN -1 ELSE IF n > 0 THEN 1 ELSE 0

\* n / d rounded toward zero (d > 0)
TruncDiv(n, d) == Sign(n) * (Abs(n) \div d)

\* two's-complement wrap of a sum of two i32 (AtomicI32::fetch_add wraps)
WrapI32(n) ==
    IF n > I32_MAX THEN n - I32_MAX - I32_MAX - 2
    ELSE IF n < I32_MIN THEN n + I32_MAX + I32_MAX + 2
    ELSE n

\* `v as f32` for an i32 delta
ToF32(v) == v * FP_ONE

-----------------------------------------------------------------------------
(* Shared motion channel: mouse.rs *)

\* AtomicI32::swap(0): the value left in the atomic (the old one is returned)
SwapKeep(cur) == cur
Swap0(cur) == 0

\* AtomicI32::fetch_add(v): the new value of the atomic
FetchAdd(cur, v) == WrapI32(cur + v)

\* TOGGLE.compare_exchange(true, false): the value left in the flag (the
\* exchange succeeds exactly when the flag was true)
CompareExchangeLoad(cur) == cur
CompareExchange(cur) == IF cur = TRUE THEN FALSE ELSE cur

\* self.device.grab(): whether the device is held grabbed after the call
\* (EVIOCGRAB succeeds)
GrabSkipped(held) == held
Grab(held) == TRUE

\* mouse.rs 127-138: whether processing event ev adds its value to the total
\* of `axis` ("X" for dx, "Y" for dy): ev is a RelAxis event, `active` is
\* loaded true, and the event's axis is that one.
AccumulatesIdle(ev, axis) == ev.kind = axis
Accumulates(ev, axis) == ev.kind = axis /\ active

-----------------------------------------------------------------------------
(* Smoothing and scaling: main.rs 110-111, 146-154 *)

\* let scale = BASE_SCALE * config.sensitivity
Scale == BASE_SCALE * sensitivity

\* let y_sign = if config.invert_y { -1.0 } else { 1.0 }
YSign == IF invert_y THEN -1 ELSE 1

\* ema * EMA_DECAY
MulDecay(e) == TruncDiv(e * EMA_DECAY_NUM, EMA_DECAY_DEN)

\* if ema.abs() < 0.5 { ema = 0.0 }
SnapNever(e) == e
Snap(e) == IF 2 * Abs(e) < FP_ONE THEN 0 ELSE e

\* ema = ema * EMA_DECAY + delta, then the snap
Advance(e, d) == Snap(MulDecay(e) + d)

\* |e * scale| for a fixed-point e, truncated to an integer and saturated at
\* I32_MAX: the magnitude of `(e * scale) as i32`, computed without leaving
\* the range of i32.
ScaledMagnitude(e) ==
    LET q == Abs(e) \div FP_ONE
        r == Abs(e) % FP_ONE
        frac == (r * Scale) \div FP_ONE
    IN  IF q > I32_MAX \div Scale THEN I32_MAX
        ELSE IF frac > I32_MAX - q * Scale THEN I32_MAX
        ELSE q * Scale + frac

\* (ema * scale) as i32 : float-to-int casts truncate and saturate, at
\* I32_MAX above and at I32_MIN below (no f32 lies strictly between
\* I32_MAX and 2^31)
ScaleCast(e) ==
    LET m == ScaledMagnitude(e)
    IN  IF e >= 0 THEN m
        ELSE IF m = I32_MAX THEN I32_MIN
        ELSE -m

-----------------------------------------------------------------------------
(* Emission sink: virtual_pad.rs 54-62 *)

\* x.clamp(STICK_MIN, STICK_MAX)
ClampNone(v) == v
Clamp(v) == IF v < STICK_MIN THEN STICK_MIN
            ELSE IF v > STICK_MAX THEN STICK_MAX
            ELSE v

\* pad.emit_stick(x, y): the clamped pair is handed to the device in one
\* emit call, which returns Ok (the device has taken the pair) or Err (it
\* has not); every caller goes on either way.
EmitStick(x, y, kind) ==
    /\ lastWrite' = << Clamp(x), Clamp(y) >>
    /\ \E ok \in BOOLEAN :
         /\ ~ok => writeFaults > 0
         /\ devPos' = IF ok THEN << Clamp(x), Clamp(y) >> ELSE devPos
         /\ writeFaults' = IF ok THEN writeFaults ELSE writeFaults - 1
    /\ lastKind' = kind
    /\ dupWrite' = \/ dupWrite
                   \/ /\ kind = "active"
                      /\ lastKind = "active"
                      /\ lastWrite = << Clamp(x), Clamp(y) >>

-----------------------------------------------------------------------------
(* Bodies of the two branches of a tick: main.rs 133-163 and 187-196 *)

\* if sx != prev_sx || sy != prev_sy
Changed(sx, sy) == sx # prev_sx \/ sy # prev_sy

\* the Active branch after the drain returned (ddx, ddy)
ActiveTick(ddx, ddy) ==
    LET ex == Advance(ema_x, ToF32(ddx))
        ey == Advance(ema_y, ToF32(ddy) * YSign)
        sx == ScaleCast(ex)
        sy == ScaleCast(ey)
    IN  /\ ema_x' = ex
        /\ ema_y' = ey
        /\ IF Changed(sx, sy)
             THEN /\ EmitStick(sx, sy, "active")
                  /\ prev_sx' = sx
                  /\ prev_sy' = sy
             ELSE UNCHANGED << prev_sx, prev_sy, outVars >>

\* if ema_x != 0.0 || ema_y != 0.0 || prev_sx != 0 || prev_sy != 0
NeedsCenterAlways == TRUE
NeedsCenter == ema_x # 0 \/ ema_y # 0 \/ prev_sx # 0 \/ prev_sy # 0

\* the Idle branch
IdleTickNoReset ==
    IF NeedsCenter
      THEN EmitStick(0, 0, "idle") /\ UNCHANGED filterVars
      ELSE UNCHANGED << filterVars, outVars >>
IdleTick ==
    IF NeedsCenter
      THEN /\ ema_x' = 0
           /\ ema_y' = 0
           /\ prev_sx' = 0
           /\ prev_sy' = 0
           /\ EmitStick(0, 0, "idle")
      ELSE UNCHANGED << filterVars, outVars >>


-----------------------------------------------------------------------------
(* Initial state: main.rs 83-123, mouse.rs 14-21, with the mouse-reader    *)
(* thread spawned and about to call MouseReader::new.                      *)

InitCommon ==
    /\ dx = 0 /\ dy = 0 /\ quit = FALSE
    /\ QUIT = FALSE /\ TOGGLE = FALSE
    /\ events = << >> /\ devq = << >> /\ intr = FALSE
    /\ ldx = 0
    /\ ema_x = 0 /\ ema_y = 0 /\ prev_sx = 0 /\ prev_sy = 0
    /\ lastWrite = << >> /\ lastKind = "none" /\ dupWrite = FALSE
    /\ devPos = << >>
    /\ nBatches = 0
    /\ owedX = 0 /\ owedY = 0 /\ quiet = 0
    /\ sinceDeact = [seen |-> FALSE, ticks |-> 0, writes |-> 0, dirty |-> FALSE]
    /\ bursts = 0 /\ since = 0

Init ==
    /\ InitCommon
    /\ active = FALSE /\ nToggles = 0
    /\ capPc = "open" /\ grabbed = FALSE
    /\ mainPc = "tick"
    /\ sensitivity = DEFAULT_SENSITIVITY
    /\ invert_y = FALSE
    /\ writeFaults = 0

-----------------------------------------------------------------------------
(* Capture thread: main.rs 89-97, mouse.rs 70-145 *)

\* MouseReader::new: Device::open succeeds, and run() starts ...
OpenOk ==
    /\ capPc = "open"
    /\ capPc' = "loop"
    /\ UNCHANGED << shared, events, grabbed, devq, intr, mainPc, ldx,
                    filterVars, cfgVars, outVars, nToggles, nBatches,
                    sumVars, sinceDeact, fltHist >>

\* ... or fails: the closure logs the error and the thread ends without
\* ever running the loop.
OpenFail ==
    /\ capPc = "open"
    /\ capPc' = "failed"
    /\ UNCHANGED << shared, events, grabbed, devq, intr, mainPc, ldx,
                    filterVars, cfgVars, outVars, nToggles, nBatches,
                    sumVars, sinceDeact, fltHist >>

\* mouse.rs 83-85: if self.state.quit.load() { break }
CapQuit ==
    /\ capPc = "loop"
    /\ quit
    /\ capPc' = "exit"
    /\ UNCHANGED << shared, events, grabbed, devq, intr, mainPc, ldx,
                    filterVars, cfgVars, outVars, nToggles, nBatches,
                    sumVars, sinceDeact, fltHist >>

\* mouse.rs 83, 88-90: quit is loaded false, then
\* TOGGLE.compare_exchange(true, false): on success the toggle code runs, on
\* failure fetch_events is called.
CapConsumeToggle ==
    /\ capPc = "loop"
    /\ ~quit
    /\ TOGGLE' = CompareExchange(TOGGLE)
    /\ capPc' = IF TOGGLE THEN "toggle" ELSE "fetch"
    /\ UNCHANGED << dx, dy, active, quit, QUIT, events, grabbed, devq, intr,
                    mainPc, ldx, filterVars, cfgVars, outVars, nToggles,
                    nBatches, sumVars, sinceDeact, fltHist >>

\* mouse.rs 92-94 / 100: was_active is loaded; when active, active is stored
\* false; when not, the device is grabbed (a failed grab is only logged).
CapToggleFirst ==
    /\ capPc = "toggle"
    /\ IF active
         THEN /\ active' = FALSE
              /\ capPc' = "ungrab"
              /\ sinceDeact' = [seen |-> TRUE, ticks |-> 0, writes |-> 0,
                                dirty |-> FALSE]
              /\ UNCHANGED grabbed
         ELSE /\ grabbed' = Grab(grabbed)
              /\ capPc' = "store_active"
              /\ UNCHANGED << active, sinceDeact >>
    /\ UNCHANGED << dx, dy, quit, QUIT, TOGGLE, events, devq, intr, mainPc,
                    ldx, filterVars, cfgVars, outVars, nToggles, nBatches,
                    sumVars, fltHist >>

\* mouse.rs 95: self.device.ungrab()
CapUngrab ==
    /\ capPc = "ungrab"
    /\ grabbed' = FALSE
    /\ capPc' = "fetch"
    /\ UNCHANGED << shared, events, devq, intr, mainPc, ldx, filterVars,
                    cfgVars, outVars, nToggles, nBatches, sumVars,
                    sinceDeact, fltHist >>

\* mouse.rs 103: self.state.active.store(true)
CapStoreActive ==
    /\ capPc = "store_active"
    /\ active' = TRUE
    /\ capPc' = "fetch"
    /\ sinceDeact' = [seen |-> FALSE, ticks |-> 0, writes |-> 0,
                      dirty |-> FALSE]
    /\ UNCHANGED << dx, dy, quit, QUIT, TOGGLE, events, grabbed, devq, intr,
                    mainPc, ldx, filterVars, cfgVars, outVars, nToggles,
                    nBatches, sumVars, fltHist >>

\* mouse.rs 108-109: fetch_events returns the events the device holds; the
\* read blocks while it holds none.
FetchOk ==
    /\ capPc = "fetch"
    /\ devq # << >>
    /\ events' = devq
    /\ devq' = << >>
    /\ intr' = FALSE
    /\ capPc' = "process"
    /\ UNCHANGED << shared, grabbed, mainPc, ldx, filterVars, cfgVars,
                    outVars, nToggles, nBatches, sumVars, sinceDeact,
                    fltHist >>

\* mouse.rs 110-118: the read is interrupted by a signal handler that ran on
\* this thread (EINTR): break on quit, else continue.
FetchInterrupted ==
    /\ capPc = "fetch"
    /\ intr
    /\ intr' = FALSE
    /\ capPc' = IF quit THEN "exit" ELSE "loop"
    /\ UNCHANGED << shared, events, grabbed, devq, mainPc, ldx, filterVars,
                    cfgVars, outVars, nToggles, nBatches, sumVars,
                    sinceDeact, fltHist >>

\* mouse.rs 110-121: any other read error: break on quit, else log, sleep
\* 10 ms and continue.
FetchError ==
    /\ capPc = "fetch"
    /\ capPc' = IF quit THEN "exit" ELSE "loop"
    /\ UNCHANGED << shared, events, grabbed, devq, intr, mainPc, ldx,
                    filterVars, cfgVars, outVars, nToggles, nBatches,
                    sumVars, sinceDeact, fltHist >>

\* mouse.rs 125-141: one event of the batch.  A RelAxis event loads
\* `active` and, when set, REL_X / REL_Y are added to dx / dy.  After the last
\* event the loop starts its next iteration.
CapProcessEvent ==
    /\ capPc = "process"
    /\ events # << >>
    /\ LET ev == Head(events)
       IN  /\ dx' = IF Accumulates(ev, "X") THEN FetchAdd(dx, ev.value)
                    ELSE dx
           /\ dy' = IF Accumulates(ev, "Y") THEN FetchAdd(dy, ev.value)
                    ELSE dy
           /\ owedX' = IF Accumulates(ev, "X") THEN owedX + ev.value
                       ELSE owedX
           /\ owedY' = IF Accumulates(ev, "Y") THEN owedY + ev.value
                       ELSE owedY
           /\ quiet' = IF Accumulates(ev, "X") \/ Accumulates(ev, "Y")
                       THEN 0 ELSE quiet
    /\ events' = Tail(events)
    /\ capPc' = IF Tail(events) = << >> THEN "loop" ELSE "process"
    /\ UNCHANGED << active, quit, QUIT, TOGGLE, grabbed, devq, intr,
                    mainPc, ldx, filterVars, cfgVars, outVars, nToggles,
                    nBatches, sinceDeact, fltHist >>

\* mouse.rs 143-145: let _ = self.device.ungrab(), and run() returns
CapExit ==
    /\ capPc = "exit"
    /\ grabbed' = FALSE
    /\ capPc' = "done"
    /\ UNCHANGED << shared, events, devq, intr, mainPc, ldx, filterVars,
                    cfgVars, outVars, nToggles, nBatches, sumVars,
                    sinceDeact, fltHist >>


-----------------------------------------------------------------------------
(* Main thread: the tick loop and the shutdown, main.rs 125-210 *)

\* if QUIT.load() || mouse_state.quit.load()
QuitRequestedCaptureOnly == quit
QuitRequested == QUIT \/ quit

\* main.rs 128-130: the quit condition holds: break
TickQuit ==
    /\ mainPc = "tick"
    /\ QuitRequested
    /\ mainPc' = "center"
    /\ UNCHANGED << shared, capVars, devq, intr, ldx, filterVars, cfgVars,
                    outVars, nToggles, nBatches, sumVars, sinceDeact, fltHist >>

\* main.rs 128, 132: no quit, active is loaded true; drain() is entered
TickActive ==
    /\ mainPc = "tick"
    /\ ~QuitRequested
    /\ active
    /\ mainPc' = "drain_dx"
    /\ UNCHANGED << shared, capVars, devq, intr, ldx, filterVars, cfgVars,
                    outVars, nToggles, nBatches, sumVars, sinceDeact, fltHist >>

\* main.rs 128, 132, 187-201: no quit, active is loaded false; the Idle
\* branch, the sleep
TickIdle ==
    /\ mainPc = "tick"
    /\ ~QuitRequested
    /\ ~active
    /\ IdleTick
    /\ sinceDeact' =
         IF sinceDeact.seen
           THEN [seen |-> TRUE,
                 ticks |-> IF sinceDeact.ticks < 2 THEN sinceDeact.ticks + 1
                           ELSE 2,
                 writes |-> IF NeedsCenter /\ sinceDeact.writes < 2
                              THEN sinceDeact.writes + 1
                              ELSE sinceDeact.writes,
                 dirty |-> IF sinceDeact.ticks = 0 THEN NeedsCenter
                           ELSE sinceDeact.dirty]
           ELSE sinceDeact
    /\ mainPc' = "tick"
    /\ UNCHANGED << shared, capVars, devq, intr, ldx, cfgVars, nToggles,
                    nBatches, sumVars, fltHist >>

\* mouse.rs 25: let dx = self.dx.swap(0)
DrainDx ==
    /\ mainPc = "drain_dx"
    /\ ldx' = dx
    /\ dx' = Swap0(dx)
    /\ quiet' = IF quiet < 2 THEN quiet + 1 ELSE 2
    /\ mainPc' = "drain_dy"
    /\ UNCHANGED << dy, active, quit, QUIT, TOGGLE, capVars, devq, intr,
                    filterVars, cfgVars, outVars, nToggles, nBatches,
                    owedX, owedY, sinceDeact, fltHist >>

\* mouse.rs 26-27: let dy = self.dy.swap(0); (dx, dy) is returned, and
\* main.rs 146-163, 198-201: the filter, the scaling, the emit, the sleep
DrainDy ==
    /\ mainPc = "drain_dy"
    /\ dy' = Swap0(dy)
    /\ owedX' = owedX - ldx
    /\ owedY' = owedY - dy
    /\ ActiveTick(ldx, dy)
    /\ ldx' = 0
    /\ mainPc' = "tick"
    /\ UNCHANGED << dx, active, quit, QUIT, TOGGLE, capVars, devq, intr,
                    cfgVars, nToggles, nBatches, quiet, sinceDeact,
                    fltHist >>

\* main.rs 204-205: let _ = pad.emit_stick(0, 0)
Center ==
    /\ mainPc = "center"
    /\ EmitStick(0, 0, "final")
    /\ mainPc' = "set_quit"
    /\ UNCHANGED << shared, capVars, devq, intr, ldx, filterVars, cfgVars,
                    nToggles, nBatches, sumVars, sinceDeact, fltHist >>

\* main.rs 208: mouse_state.quit.store(true)
SetQuit ==
    /\ mainPc = "set_quit"
    /\ quit' = TRUE
    /\ mainPc' = "join"
    /\ UNCHANGED << dx, dy, active, QUIT, TOGGLE, capVars, devq, intr, ldx,
                    filterVars, cfgVars, outVars, nToggles, nBatches,
                    sumVars, sinceDeact, fltHist >>

\* mouse_thread.join() returns once the thread's closure has returned
JoinReadyNoWait == TRUE
JoinReady == capPc \in {"done", "failed"}

\* main.rs 209-211: let _ = mouse_thread.join(), and main returns
Join ==
    /\ mainPc = "join"
    /\ JoinReady
    /\ mainPc' = "done"
    /\ UNCHANGED << shared, capVars, devq, intr, ldx, filterVars, cfgVars,
                    outVars, nToggles, nBatches, sumVars, sinceDeact, fltHist >>

-----------------------------------------------------------------------------
(* Environment: signals (main.rs 213-226) and the pointer device *)

\* Whether a signal handler, when it runs on the capture thread, finds it
\* inside the blocking read.
InRead == capPc = "fetch"

\* signal_handler(SIGUSR1): TOGGLE.store(true).  The handler runs on either
\* thread; `hit` says that it ran on the capture thread inside read().
SignalToggle ==
    /\ mainPc # "done"
    /\ nToggles < MaxToggles
    /\ \E hit \in BOOLEAN :
         /\ hit => InRead
         /\ intr' = (intr \/ hit)
    /\ TOGGLE' = TRUE
    /\ nToggles' = nToggles + 1
    /\ UNCHANGED << dx, dy, active, quit, QUIT, capVars, devq, mainPc, ldx,
                    filterVars, cfgVars, outVars, nBatches, sumVars,
                    sinceDeact, fltHist >>

\* signal_handler(SIGINT | SIGTERM): QUIT.store(true)
SignalQuit ==
    /\ mainPc # "done"
    /\ \E hit \in BOOLEAN :
         /\ hit => InRead
         /\ intr' = (intr \/ hit)
    /\ ~QUIT
    /\ QUIT' = TRUE
    /\ UNCHANGED << dx, dy, active, quit, TOGGLE, capVars, devq, mainPc,
                    ldx, filterVars, cfgVars, outVars, nToggles, nBatches,
                    sumVars, sinceDeact, fltHist >>

\* The pointer device reports a batch of events; the kernel holds them for
\* the open device until the next read.
DeviceEvent ==
    /\ mainPc # "done"
    /\ capPc \notin {"open", "failed", "done"}
    /\ nBatches < MaxBatches
    /\ devq = << >>
    /\ \E b \in EventBatches : devq' = b
    /\ nBatches' = nBatches + 1
    /\ UNCHANGED << shared, capVars, intr, mainPc, ldx, filterVars, cfgVars,
                    outVars, nToggles, sumVars, sinceDeact, fltHist >>

-----------------------------------------------------------------------------
(* Specifications *)

CaptureStep ==
    \/ OpenOk
    \/ CapQuit
    \/ CapConsumeToggle
    \/ CapToggleFirst
    \/ CapUngrab
    \/ CapStoreActive
    \/ FetchOk
    \/ FetchInterrupted
    \/ CapProcessEvent
    \/ CapExit

MainStep ==
    \/ TickQuit
    \/ TickActive
    \/ TickIdle
    \/ DrainDx
    \/ DrainDy
    \/ Center
    \/ SetQuit
    \/ Join

Environment ==
    \/ OpenFail
    \/ FetchError
    \/ SignalToggle
    \/ SignalQuit
    \/ DeviceEvent

Next == CaptureStep \/ MainStep \/ Environment

Spec == Init /\ [][Next]_vars

\* The program with an output device that may reject up to MaxWriteFaults
\* writes (in Init it rejects none).
FaultInit ==
    /\ InitCommon
    /\ active = FALSE /\ nToggles = 0
    /\ capPc = "open" /\ grabbed = FALSE
    /\ mainPc = "tick"
    /\ sensitivity = DEFAULT_SENSITIVITY
    /\ invert_y = FALSE
    /\ writeFaults = MaxWriteFaults

FaultSpec == FaultInit /\ [][Next]_vars

\* Both threads are scheduled fairly; signals, device events and I/O errors
\* are up to the environment.
FairSpec == Init /\ [][Next]_vars /\ WF_vars(CaptureStep) /\ WF_vars(MainStep)


-----------------------------------------------------------------------------
(* The program from the state it is in once a first toggle request has     *)
(* been consumed: capture Active, the device grabbed, the capture thread    *)
(* blocked in its read, the scheduler at the top of a tick, nothing         *)
(* pending.  nToggles counts the SIGUSR1 deliveries from there on.          *)

ActiveInit ==
    /\ InitCommon
    /\ active = TRUE /\ nToggles = 0
    /\ capPc = "fetch" /\ grabbed = TRUE
    /\ mainPc = "tick"
    /\ sensitivity = DEFAULT_SENSITIVITY
    /\ invert_y = FALSE
    /\ writeFaults = 0

\* Every step of the program but the opening of the device.
ActiveNext ==
    \/ CapQuit
    \/ CapConsumeToggle
    \/ CapToggleFirst
    \/ CapUngrab
    \/ CapStoreActive
    \/ FetchOk
    \/ FetchInterrupted
    \/ CapProcessEvent
    \/ CapExit
    \/ MainStep
    \/ FetchError
    \/ SignalToggle
    \/ SignalQuit
    \/ DeviceEvent

ActiveSpec == ActiveInit /\ [][ActiveNext]_vars

-----------------------------------------------------------------------------
(* The filter alone: capture is Active and stays Active, and each tick's   *)
(* drain returns a pair drawn from FilterDeltas.                           *)

FilterInit ==
    /\ InitCommon
    /\ active = TRUE /\ nToggles = 1
    /\ capPc = "fetch" /\ grabbed = TRUE
    /\ mainPc = "tick"
    /\ sensitivity \in Sensitivities
    /\ invert_y \in BOOLEAN
    /\ writeFaults = 0

\* main.rs 132-163: one Active tick whose drain returned d
FilterTick ==
    /\ mainPc = "tick"
    /\ active
    /\ \E d \in FilterDeltas :
         /\ d # <<0, 0>> => bursts < MaxBursts
         /\ ActiveTick(d[1], d[2])
         /\ bursts' = IF d # <<0, 0>> THEN bursts + 1 ELSE bursts
         /\ since' = IF d # <<0, 0>> THEN 0
                     ELSE IF since < IdleDecayTicks THEN since + 1
                     ELSE since
    /\ UNCHANGED << shared, capVars, devq, intr, mainPc, ldx, cfgVars,
                    nToggles, nBatches, sumVars, sinceDeact >>

FilterNext == FilterTick

FilterSpec == FilterInit /\ [][FilterNext]_vars

-----------------------------------------------------------------------------
(* Properties *)

\* e * config.decay for the default --decay: the product the filter would
\* form if it used the configured value
MulConfiguredDecay(e) == TruncDiv(e * DEFAULT_DECAY_NUM, DEFAULT_DECAY_DEN)

\* Whether the scaled value of the filtered value e lies outside the axis
\* range: |e| * Scale > STICK_MAX, in units of 1/FP_ONE.
ExceedsRange(e) == Abs(e) > (STICK_MAX * FP_ONE) \div Scale

C2_DrainIndivisible == mainPc = "drain_dy" => dx = 0

\* C3 as stated: after a transition Active -> Idle, once the scheduler has
\* completed a tick that observed Idle, exactly one (0,0) was written.
C3_ExactlyOneCenter ==
    (sinceDeact.seen /\ sinceDeact.ticks >= 1) => sinceDeact.writes = 1

\* C3 amended: after a transition Active -> Idle the scheduler writes (0,0)
\* at most once while capture stays Idle: the first tick that observes Idle
\* writes it exactly when one of ema_x, ema_y, prev_sx, prev_sy is non-zero
\* at that tick, later Idle ticks write nothing, and after an Idle tick all
\* four are zero.
C3_CenterOnDeactivate ==
    sinceDeact.seen =>
      /\ sinceDeact.writes <= 1
      /\ sinceDeact.ticks >= 1 =>
           /\ sinceDeact.writes = (IF sinceDeact.dirty THEN 1 ELSE 0)
           /\ ~NeedsCenter
      /\ (sinceDeact.writes = 1 /\ lastKind = "idle") => lastWrite = <<0, 0>>

\* C3 witness: two Idle ticks after a deactivation with a deflected stick,
\* one center write.
C3_Witness ==
    /\ sinceDeact.seen
    /\ sinceDeact.ticks = 2
    /\ sinceDeact.dirty
    /\ sinceDeact.writes = 1

\* C4: in a run with no device event, two toggle requests from the initial
\* (Idle, ungrabbed) state leave the capture state as it was once the capture
\* loop has consumed the pending request and is back at its read.
C4_DoubleToggleNoOp ==
    (nBatches = 0 /\ nToggles = 2 /\ ~TOGGLE /\ capPc = "fetch")
       => (~active /\ ~grabbed)

\* C5: after a quit request the process eventually exits (main returns).
C5_QuitTerminates == QUIT ~> (mainPc = "done")

\* C6: a pending toggle request is eventually consumed by the capture loop
\* (unless quit is requested or the device could not be opened).
C6_ToggleConsumed == TOGGLE ~> (~TOGGLE \/ QUIT \/ capPc = "failed")

\* C7: no two consecutive writes made in Active ticks carry the same clamped
\* pair.
C7_NoRedundantWrite == ~dupWrite

\* C8: every coordinate written lies in [STICK_MIN, STICK_MAX], and a
\* filtered value whose scaled value exceeds the range is written as the
\* boundary of its sign.
C8_Clamped ==
    lastWrite # << >> =>
      /\ lastWrite[1] \in STICK_MIN..STICK_MAX
      /\ lastWrite[2] \in STICK_MIN..STICK_MAX
      /\ lastKind = "active" =>
           /\ ExceedsRange(ema_x) => lastWrite[1] = Sign(ema_x) * STICK_MAX
           /\ ExceedsRange(ema_y) => lastWrite[2] = Sign(ema_y) * STICK_MAX

\* C8 witness: the scaled x does not fit an i32 (the cast saturates) and is
\* written as STICK_MAX, the scaled y as STICK_MIN.
C8_Witness ==
    /\ lastKind = "active"
    /\ ScaledMagnitude(ema_x) = I32_MAX
    /\ ema_x > 0
    /\ ExceedsRange(ema_y)
    /\ ema_y < 0
    /\ lastWrite = << STICK_MAX, STICK_MIN >>

C10_GracefulShutdown ==
    /\ quit => (lastKind = "final" /\ lastWrite = <<0, 0>>)
    /\ mainPc = "done" =>
         /\ lastKind = "final" /\ lastWrite = <<0, 0>>
         /\ capPc \in {"done", "failed"}
         /\ ~grabbed

\* C10 witness: main returned after a quit that found capture Active and the
\* stick deflected; the capture loop ended through its final ungrab.
C10_Witness ==
    /\ mainPc = "done"
    /\ capPc = "done"
    /\ active
    /\ prev_sx # 0

\* C11: the capture thread adds an event's value to the channel only when
\* the event is relative motion on X or Y and `active` is true as the event
\* is processed: an event processed while Idle, and any other kind of event,
\* leaves dx and dy as they were; a motion event processed while Active adds
\* its value to its own axis alone.
C11_IdleEventsDiscarded ==
    [][ (capPc = "process" /\ events' # events) =>
          LET ev == Head(events)
          IN  /\ (~active \/ ev.kind \notin {"X", "Y"}) =>
                    (dx' = dx /\ dy' = dy)
              /\ (active /\ ev.kind = "X") =>
                    (dx' = dx + ev.value /\ dy' = dy)
              /\ (active /\ ev.kind = "Y") =>
                    (dy' = dy + ev.value /\ dx' = dx)
      ]_vars

\* C11 witness: after an Active period capture is Idle again, the REL_X
\* event of a batch has been processed and the channel holds nothing.
C11_Witness ==
    /\ capPc = "process"
    /\ events = << Ev("Y", -1) >>
    /\ ~active
    /\ sinceDeact.seen
    /\ dx = 0 /\ dy = 0

\* C12: a failure to open the pointer device is fatal: once MouseReader::new
\* has failed in the capture thread the process terminates (main returns)
\* instead of running the tick loop without a capture thread.
C12_OpenFailureFatal == (capPc = "failed") ~> (mainPc = "done")

\* C13: whenever the capture state becomes Active again after having been
\* Idle, both pending totals are zero: as the capture thread is about to
\* store active = true after an Idle period in which the scheduler has
\* completed a tick, the channel holds no delta of the Active period before.
C13_NoStaleDelta ==
    (capPc = "store_active" /\ sinceDeact.seen /\ sinceDeact.ticks >= 1)
       => (dx = 0 /\ dy = 0)

\* C14: a tick that observes Idle ends with ema_x, ema_y, prev_sx, prev_sy
\* all zero; and a tick that observes Idle while they are already zero writes
\* nothing, drains nothing and changes no scheduler state.  From a state in
\* which the scheduler is at the top of a tick with no quit requested and
\* capture Idle: a step that changes the filter state, the previous pair or
\* the output zeroes all four, writes the center and leaves the channel
\* alone; and when all four are zero no step changes the scheduler, the
\* output or the channel.
C14_IdleTickZero ==
    [][ (mainPc = "tick" /\ ~QUIT /\ ~quit /\ ~active) =>
          /\ (filterVars' # filterVars \/ outVars' # outVars) =>
                /\ ema_x' = 0 /\ ema_y' = 0 /\ prev_sx' = 0 /\ prev_sy' = 0
                /\ lastKind' = "idle" /\ lastWrite' = <<0, 0>>
                /\ mainPc' = "tick"
                /\ dx' = dx /\ dy' = dy
          /\ (ema_x = 0 /\ ema_y = 0 /\ prev_sx = 0 /\ prev_sy = 0) =>
                UNCHANGED << mainPc, ldx, filterVars, outVars, dx, dy >>
      ]_vars

\* C14 witness: after a deactivation with the stick deflected, the first
\* Idle tick centered it and the second found everything zero.
C14_Witness ==
    /\ mainPc = "tick" /\ ~active /\ ~QUIT
    /\ sinceDeact.ticks = 2 /\ sinceDeact.writes = 1
    /\ lastKind = "idle" /\ lastWrite = <<0, 0>>
    /\ ema_x = 0 /\ ema_y = 0 /\ prev_sx = 0 /\ prev_sy = 0

\* C15: the consumer never observes a stuck deflection, whatever the outcome
\* of individual writes: once the scheduler has completed a tick that
\* observed capture Idle (and capture is still Idle), or has made its
\* shutdown emission, the pair the output device last received is (0,0), or
\* it never received one.
C15_NoStuckDeflection ==
    (\/ sinceDeact.seen /\ sinceDeact.ticks >= 1
     \/ mainPc \in {"set_quit", "join", "done"})
       => devPos \in { << >>, <<0, 0>> }

\* C16: the capture state changes only through toggle consumption by the
\* capture loop.  active starts false; it changes only in a step of the
\* capture thread inside its toggle code; TOGGLE is cleared only by the
\* check-and-clear of the capture loop, which enters the toggle code exactly
\* when it found TOGGLE set and leaves it cleared; and one pass through the
\* toggle code flips active once: from true it is stored false before the
\* ungrab, from false it is stored true after the grab.
C16_ToggleFlipsOnce ==
    /\ ~active
    /\ [][ /\ (active' # active) =>
                (capPc \in {"toggle", "store_active"} /\ capPc' # capPc)
           /\ (TOGGLE /\ ~TOGGLE') => (capPc = "loop" /\ capPc' = "toggle")
           /\ (capPc # "toggle" /\ capPc' = "toggle") =>
                (capPc = "loop" /\ TOGGLE /\ ~TOGGLE' /\ active' = active)
           /\ (capPc = "toggle" /\ capPc' # capPc) =>
                /\ ~active'
                /\ capPc' = (IF active THEN "ungrab" ELSE "store_active")
           /\ (capPc = "ungrab" /\ capPc' # capPc) =>
                (~active /\ ~active' /\ capPc' = "fetch")
           /\ (capPc = "store_active" /\ capPc' # capPc) =>
                (~active /\ active' /\ capPc' = "fetch")
         ]_vars

\* C16 witness: two toggle requests were consumed one after the other, the
\* first made capture Active, the second Idle again.
C16_Witness ==
    /\ nToggles = 2 /\ ~TOGGLE
    /\ capPc = "fetch"
    /\ ~active /\ sinceDeact.seen

\* C17: whenever active is true the device is held grabbed, until the
\* capture thread exits: the grab is issued before active is stored true
\* and active is stored false before the ungrab is issued.
C17_ActiveImpliesGrabbed ==
    /\ (active /\ capPc # "done") => grabbed
    /\ capPc = "store_active" => (grabbed /\ ~active)
    /\ capPc = "ungrab" => (grabbed /\ ~active)

\* C17 witness: a deactivation under way: active has been stored false and
\* the device, grabbed at the activation, is not yet released.
C17_Witness ==
    /\ capPc = "ungrab"
    /\ ~active /\ grabbed
    /\ nToggles = 2

\* C18: quit is sticky and stops the scheduler.  Neither QUIT nor the
\* capture thread's quit flag is ever cleared.  With the scheduler at the top
\* of a tick and either flag set, its next step leaves the loop (Stopped)
\* without touching the channel, the filter or the output, and nothing else
\* happens to the filter or the output meanwhile.  Once Stopped the scheduler
\* stays Stopped (so it drains no more), the filter state is left alone, and
\* the output is written once more only: the center, by the step that
\* follows the stop.
C18_QuitStops ==
    [][ /\ QUIT => QUIT'
        /\ quit => quit'
        /\ (mainPc = "tick" /\ (QUIT \/ quit)) =>
              /\ mainPc' \in {"tick", "center"}
              /\ UNCHANGED << ldx, filterVars, outVars >>
              /\ mainPc' = "center" => UNCHANGED << dx, dy >>
        /\ mainPc' = "center" => mainPc \in {"tick", "center"}
        /\ (mainPc \in {"center", "set_quit", "join", "done"}) =>
              /\ mainPc' \in {"center", "set_quit", "join", "done"}
              /\ UNCHANGED << ldx, filterVars >>
              /\ (mainPc' # mainPc) => UNCHANGED << dx, dy >>
              /\ (outVars' # outVars) =>
                    /\ mainPc = "center" /\ mainPc' = "set_quit"
                    /\ lastWrite' = <<0, 0>> /\ lastKind' = "final"
              /\ (mainPc = "center" /\ mainPc' # mainPc) =>
                    (lastKind' = "final" /\ lastKind # "final")
              /\ (mainPc # "center") => lastKind = "final"
      ]_vars

\* C18 witness: main has returned after a quit request that found a delta
\* pending in the channel: it was not drained, and the last write is the
\* center.
C18_Witness ==
    /\ mainPc = "done"
    /\ QUIT /\ quit
    /\ dx # 0
    /\ lastKind = "final" /\ lastWrite = <<0, 0>>

\* C19: the decay applied on an Active tick is the configured one (0.95 by
\* default, which the clamp to (0.5, 0.999) leaves as it is): with
\* sensitivity 1.0 and no inversion, one (0,0) drain after a single drained
\* delta d from rest, the filtered value is 0.95 * d on both axes.
C19_ConfiguredDecay ==
    (bursts = 1 /\ since = 1 /\ sensitivity = DEFAULT_SENSITIVITY /\ ~invert_y)
       => \E d \in FilterDeltas :
             /\ ema_x = Snap(MulConfiguredDecay(ToF32(d[1])))
             /\ ema_y = Snap(MulConfiguredDecay(ToF32(d[2])))

=============================================================================
